---- MODULE Spec2Model ----
(***************************************************************************)
(* Model of generate_test_files.py: a script that writes 100 JSON files of *)
(* randomly shaped records and hides the string "golden" in one of them.   *)
(*                                                                         *)
(* Python values are tagged records [t |-> type, v |-> payload]:           *)
(*   int   v = the integer            float v = the value in hundredths    *)
(*   str   v = the string             bool  v = TRUE / FALSE               *)
(*   dict  v = sequence of <<key, value>> pairs in insertion order,        *)
(*         id = the identity of the object: two dicts with one id are one  *)
(*         object reached through two references                           *)
(*   list  v = sequence of values     none  v = 0                          *)
(* The process-wide random source is the variable rng, the state of the    *)
(* generator; random.randint / random.choice / random.uniform each take    *)
(* one word from it.                                                       *)
(***************************************************************************)
EXTENDS Integers, Sequences, FiniteSets, TLC

VARIABLES
    pc,                 \* position of the script: "makedirs", "choose", "generate",
                        \* "inject", "write", "report", "report_golden", "done",
                        \* "crashed"
    rng,                \* state of the random source
    dir_exists,         \* whether the directory test_data exists
    golden_file_index,  \* line 119; -1 while unassigned
    i,                  \* loop variable of line 121
    data,               \* the record of the current iteration
    modification_type,  \* the technique drawn by the last add_golden_value call; 0 before
    files,              \* the files written by this run: file name -> JSON content
    opened,             \* history: the file names passed to open(), in order
    calls,              \* history: <<function, i>> for every generator / injector call
    returned,           \* history: what the last generate_random_json call returned
    stdout,             \* the lines printed
    arg_data,           \* add_golden_value called on its own: the argument
    arg_type,           \*   the technique drawn
    ret_data            \*   the returned record; none before the call

vars == <<pc, rng, dir_exists, golden_file_index, i, data, modification_type,
          files, opened, calls, returned, stdout, arg_data, arg_type, ret_data>>

call_vars == <<arg_data, arg_type, ret_data>>

(***************************************************************************)
(* Bounds of the model.                                                    *)
(***************************************************************************)
NumSeeds == 100     \* the number of initial states of the random source explored
MaxFields == 3      \* add_golden_value on its own: records of up to MaxFields fields

(***************************************************************************)
(* Python values.                                                          *)
(***************************************************************************)
PyInt(n) == [t |-> "int", v |-> n]
PyFloat(h) == [t |-> "float", v |-> h]
PyStr(s) == [t |-> "str", v |-> s]
PyBool(b) == [t |-> "bool", v |-> b]
PyDict(id, items) == [t |-> "dict", id |-> id, v |-> items]
PyList(elems) == [t |-> "list", v |-> elems]
PyNone == [t |-> "none", v |-> 0]

Keys(d) == [k \in DOMAIN d.v |-> d.v[k][1]]
HasKey(d, key) == \E k \in DOMAIN d.v : d.v[k][1] = key
Get(d, key) == d.v[CHOOSE k \in DOMAIN d.v : d.v[k][1] = key][2]

\* d[key] = val: an existing key keeps its position, a new key goes last.
DictSet(d, key, val) ==
    IF HasKey(d, key)
    THEN [d EXCEPT !.v = [k \in DOMAIN d.v |->
                             IF d.v[k][1] = key THEN <<key, val>> ELSE d.v[k]]]
    ELSE [d EXCEPT !.v = Append(d.v, <<key, val>>)]

\* obj[key] = val for the dict obj of identity id, as seen from `within`: the
\* assignment shows through every reference to obj that `within` holds.
RECURSIVE SetItemOf(_, _, _, _)
SetItemOf(within, id, key, val) ==
    CASE within.t = "dict" ->
            LET inner == [within EXCEPT !.v = [k \in DOMAIN within.v |->
                             <<within.v[k][1], SetItemOf(within.v[k][2], id, key, val)>>]]
            IN  IF within.id = id THEN DictSet(inner, key, val) ELSE inner
      [] within.t = "list" ->
            [within EXCEPT !.v = [k \in DOMAIN within.v |->
                                    SetItemOf(within.v[k], id, key, val)]]
      [] OTHER -> within

(***************************************************************************)
(* Sample data, lines 11-15.                                               *)
(***************************************************************************)
names == <<"Alice", "Bob", "Charlie", "Diana", "Eve", "Frank", "Grace", "Henry", "Iris", "Jack">>
cities == <<"New York", "London", "Tokyo", "Paris", "Berlin", "Sydney", "Toronto", "Mumbai", "Seoul", "Dubai">>
products == <<"laptop", "phone", "tablet", "monitor", "keyboard", "mouse", "headphones", "camera", "speaker", "charger">>
\* Mutant of colors: the sample colours include the marker string.
colors_with_golden == <<"red", "blue", "green", "yellow", "purple", "orange", "pink", "black", "golden", "silver">>
colors == <<"red", "blue", "green", "yellow", "purple", "orange", "pink", "black", "white", "silver">>
status_values == <<"active", "inactive", "pending", "completed", "cancelled", "processing">>

\* str.lower() on the entries of names.
lower(s) ==
    CASE s = "Alice" -> "alice" [] s = "Bob" -> "bob" [] s = "Charlie" -> "charlie"
      [] s = "Diana" -> "diana" [] s = "Eve" -> "eve" [] s = "Frank" -> "frank"
      [] s = "Grace" -> "grace" [] s = "Henry" -> "henry" [] s = "Iris" -> "iris"
      [] s = "Jack" -> "jack"

(***************************************************************************)
(* The random source.  The random module holds one generator for the whole *)
(* process, seeded by the operating system when the module is imported;    *)
(* every call takes one word from it.  The generator here is a combination *)
(* of two multiplicative congruential generators (moduli 2147483563 and    *)
(* 2147483399), computed without leaving 32 bits; its words are the        *)
(* numbers 1 .. 2147483562.                                                *)
(***************************************************************************)
\* The initial states explored: states whose first words are spread over the range.
Seed(k) == <<2 + k * 21262211, 1>>
Seeds == {Seed(k) : k \in 0 .. (NumSeeds - 1)}

\* The word the generator hands out in state x.
Word(x) == IF x[1] - x[2] < 1 THEN x[1] - x[2] + 2147483562 ELSE x[1] - x[2]

\* The state after a word was taken: x[1] * 40014 % 2147483563, x[2] * 40692 % 2147483399.
NextRng(x) ==
    LET n1 == 40014 * (x[1] % 53668) - 12211 * (x[1] \div 53668)
        n2 == 40692 * (x[2] % 52774) - 3791 * (x[2] \div 52774)
    IN  <<IF n1 < 0 THEN n1 + 2147483563 ELSE n1, IF n2 < 0 THEN n2 + 2147483399 ELSE n2>>

RECURSIVE Skip(_, _)
Skip(x, k) == IF k = 0 THEN x ELSE Skip(NextRng(x), k - 1)

\* Mutant of randint: the upper end is passed by one.
randint_past_upper(x, a, b) == a + (Word(x) % (b - a + 2))

\* random.randint(a, b): an integer of a..b, both ends included.
randint(x, a, b) == a + (Word(x) % (b - a + 1))

\* random.choice(seq)
choice(x, seq) == seq[1 + (Word(x) % Len(seq))]

\* round(random.uniform(a, b), 2), in hundredths: any value of two decimals from
\* a to b, both ends included (the upper end by rounding).
uniform(x, a, b) == 100 * a + (Word(x) % (100 * (b - a) + 1))

(***************************************************************************)
(* datetime arithmetic (the standard library's proleptic Gregorian         *)
(* calendar) and random_date, lines 17-23.                                 *)
(***************************************************************************)
is_leap(y) == y % 4 = 0 /\ (y % 100 # 0 \/ y % 400 = 0)

days_in_month(y, m) ==
    IF m = 2 THEN (IF is_leap(y) THEN 29 ELSE 28)
    ELSE IF m \in {4, 6, 9, 11} THEN 30 ELSE 31

RECURSIVE days_before_month(_, _)
days_before_month(y, m) ==
    IF m = 1 THEN 0 ELSE days_before_month(y, m - 1) + days_in_month(y, m - 1)

days_before_year(y) ==
    (y - 1) * 365 + ((y - 1) \div 4) - ((y - 1) \div 100) + ((y - 1) \div 400)

\* date.toordinal()
ymd2ord(d) == days_before_year(d[1]) + days_before_month(d[1], d[2]) + d[3]

\* date.fromordinal(n)
ord2ymd(n) ==
    LET n0 == n - 1
        n400 == n0 \div 146097
        r400 == n0 % 146097
        n100 == r400 \div 36524
        r100 == r400 % 36524
        n4 == r100 \div 1461
        r4 == r100 % 1461
        n1 == r4 \div 365
        r1 == r4 % 365
        year == n400 * 400 + 1 + n100 * 100 + n4 * 4 + n1
        m0 == (r1 + 50) \div 32
        p0 == days_before_month(year, m0)
        month == IF p0 > r1 THEN m0 - 1 ELSE m0
        preceding == IF p0 > r1 THEN p0 - days_in_month(year, m0 - 1) ELSE p0
    IN  IF n1 = 4 \/ n100 = 4
        THEN <<year - 1, 12, 31>>
        ELSE <<year, month, r1 - preceding + 1>>

\* "%04d" and "%02d" on the numbers a date holds
pad2(n) == IF n < 10 THEN "0" \o ToString(n) ELSE ToString(n)
pad4(n) ==
    IF n < 10 THEN "000" \o ToString(n)
    ELSE IF n < 100 THEN "00" \o ToString(n)
    ELSE IF n < 1000 THEN "0" \o ToString(n) ELSE ToString(n)

\* datetime.isoformat() of a datetime at midnight
isoformat(d) == pad4(d[1]) \o "-" \o pad2(d[2]) \o "-" \o pad2(d[3]) \o "T00:00:00"

start == <<2020, 1, 1>>
end == <<2025, 12, 31>>

\* delta.days, line 21
delta_days == ymd2ord(end) - ymd2ord(start)

\* Mutant of random_date: the offset is added to end instead of start.
random_date_from_end(x) ==
    LET random_days == randint(x, 0, delta_days)
    IN  isoformat(ord2ymd(ymd2ord(end) + random_days))

random_date(x) ==
    LET random_days == randint(x, 0, delta_days)
    IN  isoformat(ord2ymd(ymd2ord(start) + random_days))

(***************************************************************************)
(* generate_random_json, lines 25-90.  W(k) is the state the k-th draw of   *)
(* the call finds the random source in; the values of a dict display are   *)
(* evaluated in field order.  The result is the record and the state the   *)
(* random source is left in.  Every dict display makes a new object: the   *)
(* record is object 0, the dicts inside it are numbered from 1.            *)
(***************************************************************************)
profile(x) ==
    LET W(k) == Skip(x, k)
    IN  [data |-> PyDict(0, <<
            <<"id", PyInt(randint(W(1), 1000, 9999))>>,
            <<"name", PyStr(choice(W(2), names))>>,
            <<"email", PyStr(lower(choice(W(3), names)) \o ToString(randint(W(4), 1, 999))
                             \o "@example.com")>>,
            <<"age", PyInt(randint(W(5), 18, 80))>>,
            <<"city", PyStr(choice(W(6), cities))>>,
            <<"active", PyBool(choice(W(7), <<TRUE, FALSE>>))>>,
            <<"score", PyFloat(uniform(W(8), 0, 100))>> >>),
         rng |-> W(9)]

product(x) ==
    LET W(k) == Skip(x, k)
    IN  [data |-> PyDict(0, <<
            <<"product_id", PyStr("PROD-" \o ToString(randint(W(1), 10000, 99999)))>>,
            <<"name", PyStr(choice(W(2), products))>>,
            <<"price", PyFloat(uniform(W(3), 10, 2000))>>,
            <<"color", PyStr(choice(W(4), colors))>>,
            <<"in_stock", PyBool(choice(W(5), <<TRUE, FALSE>>))>>,
            <<"quantity", PyInt(randint(W(6), 0, 500))>>,
            <<"category", PyStr(choice(W(7),
                <<"electronics", "accessories", "computers", "audio">>))>> >>),
         rng |-> W(8)]

transaction(x) ==
    LET W(k) == Skip(x, k)
    IN  [data |-> PyDict(0, <<
            <<"transaction_id", PyStr("TXN-" \o ToString(randint(W(1), 100000, 999999)))>>,
            <<"user_id", PyInt(randint(W(2), 1000, 9999))>>,
            <<"amount", PyFloat(uniform(W(3), 1, 10000))>>,
            <<"currency", PyStr(choice(W(4), <<"USD", "EUR", "GBP", "JPY">>))>>,
            <<"status", PyStr(choice(W(5), status_values))>>,
            <<"timestamp", PyStr(random_date(W(6)))>> >>),
         rng |-> W(7)]

event(x) ==
    LET W(k) == Skip(x, k)
    IN  [data |-> PyDict(0, <<
            <<"event_id", PyInt(randint(W(1), 1, 99999))>>,
            <<"event_type", PyStr(choice(W(2),
                <<"login", "logout", "purchase", "view", "click", "search">>))>>,
            <<"user", PyStr(choice(W(3), names))>>,
            <<"location", PyStr(choice(W(4), cities))>>,
            <<"timestamp", PyStr(random_date(W(5)))>>,
            <<"metadata", PyDict(1, <<
                <<"browser", PyStr(choice(W(6), <<"Chrome", "Firefox", "Safari", "Edge">>))>>,
                <<"device", PyStr(choice(W(7), <<"desktop", "mobile", "tablet">>))>> >>)>> >>),
         rng |-> W(8)]

\* range(random.randint(1, 5)), line 86
num_projects(x) == randint(x, 1, 5)

department(x) ==
    LET W(k) == Skip(x, k)
        n == num_projects(W(4))
        project(j) == PyDict(j + 1, <<
            <<"name", PyStr("Project-" \o ToString(randint(W(3 * j + 2), 1, 100)))>>,
            <<"status", PyStr(choice(W(3 * j + 3), status_values))>>,
            <<"priority", PyStr(choice(W(3 * j + 4), <<"low", "medium", "high", "critical">>))>> >>)
    IN  [data |-> PyDict(0, <<
            <<"department", PyStr(choice(W(1),
                <<"Engineering", "Sales", "Marketing", "HR", "Finance">>))>>,
            <<"data", PyDict(1, <<
                <<"employees", PyInt(randint(W(2), 5, 100))>>,
                <<"budget", PyFloat(uniform(W(3), 50000, 5000000))>>,
                <<"projects", PyList([j \in 1 .. n |-> project(j)])>> >>)>>,
            <<"last_updated", PyStr(random_date(W(3 * n + 5)))>> >>),
         rng |-> W(3 * n + 6)]

generate_random_json(x) ==
    LET structure_type == randint(x, 1, 5)
    IN  IF structure_type = 1 THEN profile(x)
        ELSE IF structure_type = 2 THEN product(x)
        ELSE IF structure_type = 3 THEN transaction(x)
        ELSE IF structure_type = 4 THEN event(x)
        ELSE department(x)

(***************************************************************************)
(* add_golden_value, lines 92-116, with the technique drawn by the caller. *)
(***************************************************************************)
\* isinstance(data[key], str), isinstance(data[key], dict)
isinstance(val, type) == val.t = type

\* Mutant of replace_first_string: the loop does not break after the first str.
replace_all_strings(d) ==
    [d EXCEPT !.v = [k \in DOMAIN d.v |->
        IF isinstance(d.v[k][2], "str") THEN <<d.v[k][1], PyStr("golden")>> ELSE d.v[k]]]

\* lines 101-104: the first key in key order whose value is a str
replace_first_string(d) ==
    IF \E k \in DOMAIN d.v : isinstance(d.v[k][2], "str")
    THEN LET k0 == CHOOSE k \in DOMAIN d.v :
                     /\ isinstance(d.v[k][2], "str")
                     /\ \A j \in 1 .. (k - 1) : ~isinstance(d.v[j][2], "str")
         IN  DictSet(d, d.v[k0][1], PyStr("golden"))
    ELSE d

\* Mutant of add_in_nested: line 110 does not return, line 111 runs as well.
add_in_nested_fallthrough(d) ==
    IF \E k \in DOMAIN d.v : isinstance(d.v[k][2], "dict")
    THEN LET k0 == CHOOSE k \in DOMAIN d.v :
                     /\ isinstance(d.v[k][2], "dict")
                     /\ \A j \in 1 .. (k - 1) : ~isinstance(d.v[j][2], "dict")
         IN  DictSet(SetItemOf(d, d.v[k0][2].id, "special", PyStr("golden")),
                     "special", PyStr("golden"))
    ELSE DictSet(d, "special", PyStr("golden"))

\* lines 107-111: the first key in key order whose value is a dict; line 109
\* assigns into that object, not into a copy of it
add_in_nested(d) ==
    IF \E k \in DOMAIN d.v : isinstance(d.v[k][2], "dict")
    THEN LET k0 == CHOOSE k \in DOMAIN d.v :
                     /\ isinstance(d.v[k][2], "dict")
                     /\ \A j \in 1 .. (k - 1) : ~isinstance(d.v[j][2], "dict")
         IN  SetItemOf(d, d.v[k0][2].id, "special", PyStr("golden"))
    ELSE DictSet(d, "special", PyStr("golden"))

\* Mutant of add_golden_value: technique 1 writes key and value the wrong way round.
add_golden_value_swapped(d, mtype) ==
    IF mtype = 1 THEN DictSet(d, "golden", PyStr("treasure"))
    ELSE IF mtype = 2 THEN replace_first_string(d)
    ELSE IF mtype = 3 THEN add_in_nested(d)
    ELSE DictSet(d, "tags", PyList(<<PyStr("special"), PyStr("golden"), PyStr("rare")>>))

add_golden_value(d, mtype) ==
    IF mtype = 1 THEN DictSet(d, "treasure", PyStr("golden"))
    ELSE IF mtype = 2 THEN replace_first_string(d)
    ELSE IF mtype = 3 THEN add_in_nested(d)
    ELSE DictSet(d, "tags", PyList(<<PyStr("special"), PyStr("golden"), PyStr("rare")>>))

(***************************************************************************)
(* Files.  json.dump writes the record as JSON text; a file is held as the *)
(* JSON document its text denotes: objects, arrays, strings, booleans and  *)
(* numbers (JSON has one number type; v is the number in hundredths).      *)
(***************************************************************************)
RECURSIVE json_dump(_)
json_dump(val) ==
    CASE val.t = "dict" ->
            [t |-> "object",
             v |-> [k \in DOMAIN val.v |-> <<val.v[k][1], json_dump(val.v[k][2])>>]]
      [] val.t = "list" -> [t |-> "array", v |-> [k \in DOMAIN val.v |-> json_dump(val.v[k])]]
      [] val.t = "str" -> [t |-> "string", v |-> val.v]
      [] val.t = "int" -> [t |-> "number", v |-> 100 * val.v]
      [] val.t = "float" -> [t |-> "number", v |-> val.v]
      [] val.t = "bool" -> [t |-> "boolean", v |-> val.v]
      [] val.t = "none" -> [t |-> "null", v |-> 0]

\* What a file holds when the write failed after open() had truncated it.
Truncated == [t |-> "truncated", v |-> 0]

\* "{i:03d}"
pad3(n) ==
    IF n < 10 THEN "00" \o ToString(n)
    ELSE IF n < 100 THEN "0" \o ToString(n) ELSE ToString(n)

\* Mutant of filename: the index is not zero-padded.
filename_unpadded(n) == "test_data/test_file_" \o ToString(n) \o ".json"

\* line 128
filename(n) == "test_data/test_file_" \o pad3(n) \o ".json"

\* line 133, the file named by the report
reported_name(n) == "test_file_" \o pad3(n) \o ".json"

\* range(100) of line 121 and randint(0, 99) of line 119
NumFiles == 100

(***************************************************************************)
(* The script, lines 8 and 118-133.                                        *)
(***************************************************************************)
Init ==
    /\ pc = "makedirs"
    /\ rng \in Seeds
    /\ dir_exists \in BOOLEAN
    /\ golden_file_index = -1
    /\ i = 0
    /\ data = PyNone
    /\ modification_type = 0
    /\ files = <<>>
    /\ opened = <<>>
    /\ calls = <<>>
    /\ returned = PyNone
    /\ stdout = <<>>
    /\ arg_data = PyNone
    /\ arg_type = 0
    /\ ret_data = PyNone

\* line 8: os.makedirs('test_data', exist_ok=True)
MakeDirs ==
    /\ pc = "makedirs"
    /\ dir_exists' = TRUE
    /\ pc' = "choose"
    /\ UNCHANGED <<rng, golden_file_index, i, data, modification_type, files, opened,
                   calls, stdout, returned, call_vars>>

\* line 8 raising OSError, whether the directory exists or not (no permission,
\* a file of that name, ...): the script ends with a traceback
MakeDirsFail ==
    /\ pc = "makedirs"
    /\ pc' = "crashed"
    /\ UNCHANGED <<rng, dir_exists, golden_file_index, i, data, modification_type, files,
                   opened, calls, stdout, returned, call_vars>>

\* line 119
ChooseGolden ==
    /\ pc = "choose"
    /\ golden_file_index' = randint(rng, 0, NumFiles - 1)
    /\ rng' = NextRng(rng)
    /\ pc' = "generate"
    /\ UNCHANGED <<dir_exists, i, data, modification_type, files, opened, calls, stdout,
                   returned, call_vars>>

\* line 122
Generate ==
    /\ pc = "generate"
    /\ LET g == generate_random_json(rng)
       IN  /\ data' = g.data
           /\ rng' = g.rng
           /\ returned' = g.data
    /\ calls' = Append(calls, <<"generate_random_json", i>>)
    /\ pc' = "inject"
    /\ UNCHANGED <<dir_exists, golden_file_index, i, modification_type, files, opened,
                   stdout, call_vars>>

\* Mutant of Inject: the test of line 125 is missing, every record is injected.
InjectEveryRecord ==
    /\ pc = "inject"
    /\ modification_type' = randint(rng, 1, 4)
    /\ rng' = NextRng(rng)
    /\ data' = add_golden_value(data, modification_type')
    /\ calls' = Append(calls, <<"add_golden_value", i>>)
    /\ pc' = "write"
    /\ UNCHANGED <<dir_exists, golden_file_index, i, files, opened, stdout, returned,
                   call_vars>>

\* lines 125-126 with the condition true; line 94 draws the technique
Inject ==
    /\ pc = "inject"
    /\ i = golden_file_index
    /\ modification_type' = randint(rng, 1, 4)
    /\ rng' = NextRng(rng)
    /\ data' = add_golden_value(data, modification_type')
    /\ calls' = Append(calls, <<"add_golden_value", i>>)
    /\ pc' = "write"
    /\ UNCHANGED <<dir_exists, golden_file_index, i, files, opened, stdout, returned,
                   call_vars>>

\* line 125 with the condition false
NoInject ==
    /\ pc = "inject"
    /\ i # golden_file_index
    /\ pc' = "write"
    /\ UNCHANGED <<rng, dir_exists, golden_file_index, i, data, modification_type, files,
                   opened, calls, stdout, returned, call_vars>>

\* lines 128-130, then the next iteration of line 121 or the end of the loop
Write ==
    /\ pc = "write"
    /\ opened' = Append(opened, filename(i))
    /\ files' = (filename(i) :> json_dump(data)) @@ files
    /\ IF i + 1 < NumFiles
       THEN i' = i + 1 /\ pc' = "generate"
       ELSE i' = i /\ pc' = "report"
    /\ UNCHANGED <<rng, dir_exists, golden_file_index, data, modification_type, calls,
                   stdout, returned, call_vars>>

\* line 129 raising OSError: nothing is written
OpenFail ==
    /\ pc = "write"
    /\ opened' = Append(opened, filename(i))
    /\ pc' = "crashed"
    /\ UNCHANGED <<rng, dir_exists, golden_file_index, i, data, modification_type, files,
                   calls, stdout, returned, call_vars>>

\* Mutant of DumpFail: the error is swallowed and the loop goes on.
DumpFailSwallowed ==
    /\ pc = "write"
    /\ opened' = Append(opened, filename(i))
    /\ files' = (filename(i) :> Truncated) @@ files
    /\ IF i + 1 < NumFiles
       THEN i' = i + 1 /\ pc' = "generate"
       ELSE i' = i /\ pc' = "report"
    /\ UNCHANGED <<rng, dir_exists, golden_file_index, data, modification_type, calls,
                   stdout, returned, call_vars>>

\* line 130 raising OSError: the file exists, its text is cut short
DumpFail ==
    /\ pc = "write"
    /\ opened' = Append(opened, filename(i))
    /\ files' = (filename(i) :> Truncated) @@ files
    /\ pc' = "crashed"
    /\ UNCHANGED <<rng, dir_exists, golden_file_index, i, data, modification_type, calls,
                   stdout, returned, call_vars>>

\* The character U+2713 that opens both printed lines.
CheckMark == 10003

\* The two printed lines; a line is <<its first character, the rest of its text>>.
report_line == <<CheckMark, " Generated 100 test JSON files in 'test_data/' directory">>
golden_line(n) == <<CheckMark, " The string 'golden' is hidden in: " \o reported_name(n)>>

\* line 132
Report ==
    /\ pc = "report"
    /\ stdout' = Append(stdout, report_line)
    /\ pc' = "report_golden"
    /\ UNCHANGED <<rng, dir_exists, golden_file_index, i, data, modification_type, files,
                   opened, calls, returned, call_vars>>

\* line 132 raising (UnicodeEncodeError when the encoding of stdout has no check
\* mark, OSError when stdout cannot be written): a traceback, nothing is printed
ReportFail ==
    /\ pc = "report"
    /\ pc' = "crashed"
    /\ UNCHANGED <<rng, dir_exists, golden_file_index, i, data, modification_type, files,
                   opened, calls, stdout, returned, call_vars>>

\* line 133
ReportGolden ==
    /\ pc = "report_golden"
    /\ stdout' = Append(stdout, golden_line(golden_file_index))
    /\ pc' = "done"
    /\ UNCHANGED <<rng, dir_exists, golden_file_index, i, data, modification_type, files,
                   opened, calls, returned, call_vars>>

\* line 133 raising (BrokenPipeError when the reader of stdout went away after the
\* first line): a traceback, the first line stays printed
ReportGoldenFail ==
    /\ pc = "report_golden"
    /\ pc' = "crashed"
    /\ UNCHANGED <<rng, dir_exists, golden_file_index, i, data, modification_type, files,
                   opened, calls, stdout, returned, call_vars>>

Next ==
    \/ MakeDirs
    \/ MakeDirsFail
    \/ ChooseGolden
    \/ Generate
    \/ Inject
    \/ NoInject
    \/ Write
    \/ OpenFail
    \/ DumpFail
    \/ Report
    \/ ReportFail
    \/ ReportGolden
    \/ ReportGoldenFail

Spec == Init /\ [][Next]_vars

(***************************************************************************)
(* add_golden_value called on its own, on any record: up to MaxFields      *)
(* fields with distinct names, the names the function writes among them,   *)
(* and one generated record of each of the five shapes.  The field values  *)
(* are objects: the dict of identity 1 is one object wherever it occurs,   *)
(* as the value of one or several fields, as an element of the list, and   *)
(* as the value of field "c" of the dict of identity 2.                    *)
(***************************************************************************)
FieldNames == {"a", "treasure", "special", "tags"}

FieldValues ==
    {PyStr("x"), PyInt(7), PyDict(1, <<>>),
     PyDict(2, << <<"special", PyInt(1)>>, <<"c", PyDict(1, <<>>)>> >>),
     PyList(<<PyDict(1, <<>>)>>)}

\* the item sequences of n fields with distinct names
RECURSIVE ItemSeqs(_)
ItemSeqs(n) ==
    IF n = 0 THEN {<<>>}
    ELSE UNION {{Append(items, <<key, val>>) :
                    key \in FieldNames \ {items[k][1] : k \in DOMAIN items},
                    val \in FieldValues} :
                items \in ItemSeqs(n - 1)}

InputRecords(max) ==
    {PyDict(0, items) : items \in UNION {ItemSeqs(n) : n \in 0 .. max}}
    \cup {generate_random_json(Seed(k)).data : k \in 0 .. 4}

InitInject ==
    /\ pc = "call"
    /\ arg_data \in InputRecords(MaxFields)
    /\ rng \in {Seed(k) : k \in 0 .. 3}
    /\ arg_type = 0
    /\ ret_data = PyNone
    /\ dir_exists = FALSE
    /\ golden_file_index = -1
    /\ i = 0
    /\ data = PyNone
    /\ modification_type = 0
    /\ files = <<>>
    /\ opened = <<>>
    /\ calls = <<>>
    /\ returned = PyNone
    /\ stdout = <<>>

\* lines 92-116: one call, the technique drawn at line 94
CallInject ==
    /\ pc = "call"
    /\ arg_type' = randint(rng, 1, 4)
    /\ rng' = NextRng(rng)
    /\ ret_data' = add_golden_value(arg_data, arg_type')
    /\ pc' = "returned"
    /\ UNCHANGED <<arg_data, dir_exists, golden_file_index, i, data, modification_type,
                   files, opened, calls, returned, stdout>>

NextInject == CallInject

SpecInject == InitInject /\ [][NextInject]_vars

(***************************************************************************)
(* Vocabulary of the properties.                                           *)
(***************************************************************************)
\* The string s occurs as a value somewhere in val (a Python value or a JSON document).
RECURSIVE DeepContains(_, _)
DeepContains(val, s) ==
    CASE val.t \in {"str", "string"} -> val.v = s
      [] val.t \in {"dict", "object"} ->
            \E k \in DOMAIN val.v : DeepContains(val.v[k][2], s)
      [] val.t \in {"list", "array"} -> \E k \in DOMAIN val.v : DeepContains(val.v[k], s)
      [] OTHER -> FALSE

Digits == <<"0", "1", "2", "3", "4", "5", "6", "7", "8", "9">>

\* The name the file of index n < 100 must have.
ExpectedName(n) ==
    "test_data/test_file_0" \o Digits[(n \div 10) + 1] \o Digits[(n % 10) + 1] \o ".json"

Complete == pc \in {"report", "report_golden", "done"}

GoldenFiles == {n \in DOMAIN files : DeepContains(files[n], "golden")}

(***************************************************************************)
(* C1: once all 100 files are written, the files holding "golden" as a     *)
(* value somewhere in their structure are exactly the one file of the      *)
(* marker index, and that is the file the report names when it is printed. *)
(***************************************************************************)
C1_ExactlyOneGoldenFile ==
    /\ (Cardinality(DOMAIN files) = 100 /\ \A n \in DOMAIN files : files[n].t = "object") =>
          /\ Cardinality(GoldenFiles) = 1
          /\ GoldenFiles = {ExpectedName(golden_file_index)}
    /\ pc = "done" =>
          /\ Cardinality(DOMAIN files) = 100
          /\ \A n \in DOMAIN files : files[n].t = "object"
          /\ stdout =
                << <<10003, " Generated 100 test JSON files in 'test_data/' directory">>,
                   <<10003, " The string 'golden' is hidden in: "
                            \o "test_file_0" \o Digits[(golden_file_index \div 10) + 1]
                            \o Digits[(golden_file_index % 10) + 1] \o ".json">> >>

\* The second print failed: all files are written, the first line is out.
C1_WitnessBrokenPipe ==
    /\ pc = "crashed"
    /\ Len(stdout) = 1
    /\ Cardinality(GoldenFiles) = 1

\* A complete run whose marked record took technique 2 and is not the first file.
C1_Witness ==
    /\ pc = "done"
    /\ Len(stdout) = 2
    /\ modification_type = 2
    /\ golden_file_index > 0
    /\ Cardinality(DOMAIN files) = NumFiles
    /\ DeepContains(files[ExpectedName(golden_file_index)], "golden")

(***************************************************************************)
(* C5: a complete run opens exactly the 100 files test_file_000.json ..    *)
(* test_file_099.json of test_data, each once, in index order, and at no   *)
(* time is any other file written.                                         *)
(***************************************************************************)
C5_ExactlyHundredFiles ==
    /\ \A k \in DOMAIN opened : opened[k] = ExpectedName(k - 1)
    /\ DOMAIN files \subseteq {opened[k] : k \in DOMAIN opened}
    /\ Complete =>
          /\ Len(opened) = 100
          /\ DOMAIN files = {ExpectedName(n) : n \in 0 .. 99}
          /\ Cardinality(DOMAIN files) = 100

C5_Witness ==
    /\ pc = "done"
    /\ Cardinality(DOMAIN files) = 100
    /\ opened[1] = "test_data/test_file_000.json"
    /\ opened[100] = "test_data/test_file_099.json"

(***************************************************************************)
(* C8: the marker index is chosen once, before the first record is         *)
(* generated, and never changes; the generator is called once per index,   *)
(* in increasing order; the injector is called once in the run, at the     *)
(* chosen index; every other file holds the record the generator returned. *)
(***************************************************************************)
IsGenerate(c) == c[1] = "generate_random_json"
IsInject(c) == c[1] = "add_golden_value"

C8_State ==
    LET gens == SelectSeq(calls, IsGenerate)
        injs == SelectSeq(calls, IsInject)
    IN  /\ calls # <<>> => golden_file_index \in 0 .. 99
        /\ \A k \in DOMAIN gens : gens[k][2] = k - 1
        /\ pc \in {"inject", "write"} => Len(gens) = i + 1
        /\ pc = "generate" => Len(gens) = i
        /\ Complete => Len(gens) = 100
        /\ Len(injs) <= 1
        /\ \A k \in DOMAIN injs : injs[k][2] = golden_file_index
        /\ (pc = "write" /\ i >= golden_file_index) => Len(injs) = 1
        /\ Complete => Len(injs) = 1
        /\ (pc = "write" /\ i # golden_file_index) => data = returned

C8_Step ==
    /\ golden_file_index # -1 => golden_file_index' = golden_file_index
    /\ (files' # files /\ pc' # "crashed" /\ i # golden_file_index) =>
          /\ ExpectedName(i) \notin DOMAIN files
          /\ files'[ExpectedName(i)] = json_dump(returned)
          /\ \A n \in DOMAIN files : files'[n] = files[n]

\* C8: the call history is as described in every state, and every step keeps the
\* marker index and writes an unmarked record as the generator returned it.
C8_OnceAndInOrder == [](C8_State) /\ [][C8_Step]_vars

\* The record after the marked one is being written: the injector has run once.
C8_Witness ==
    /\ pc = "write"
    /\ golden_file_index \in 1 .. 98
    /\ i = golden_file_index + 1
    /\ Len(SelectSeq(calls, IsInject)) = 1
    /\ data = returned

(***************************************************************************)
(* C9: a failure while writing the file of index i ends the run: the files *)
(* of the indices below i stay fully written, no file of a higher index    *)
(* is written, nothing is retried, and nothing of the report is printed;   *)
(* a line of the report is printed only after all 100 files were written.  *)
(***************************************************************************)
FullyWritten(n) ==
    /\ ExpectedName(n) \in DOMAIN files
    /\ files[ExpectedName(n)].t = "object"

\* The run ended in open() or json.dump: the file opened last is not fully written.
WriteFailed == pc = "crashed" /\ opened # <<>> /\ ~FullyWritten(Len(opened) - 1)

C9_State ==
    /\ WriteFailed =>
          /\ Len(opened) = i + 1
          /\ \A n \in 0 .. (i - 1) : FullyWritten(n)
          /\ \A n \in (i + 1) .. 99 : ExpectedName(n) \notin DOMAIN files
          /\ stdout = <<>>
    /\ stdout # <<>> =>
          /\ pc \in {"report_golden", "done", "crashed"}
          /\ \A n \in 0 .. 99 : FullyWritten(n)

\* Nothing happens after the failure.
C9_Step == pc # "crashed"

\* C9: every state is as described, and no step follows a failure.
C9_WriteFailureIsFatal == [](C9_State) /\ [][C9_Step]_vars

\* The write of a file in mid-run failed after the file was truncated.
C9_Witness ==
    /\ pc = "crashed"
    /\ i = 50
    /\ ExpectedName(50) \in DOMAIN files
    /\ files[ExpectedName(50)] = Truncated
    /\ FullyWritten(49)
    /\ WriteFailed

(***************************************************************************)
(* C10: every generated record has a string-valued top-level field, the    *)
(* first one being name, product_id, transaction_id, event_type or         *)
(* department, so technique 2 always replaces a value: on a generated      *)
(* record it keeps the field names and changes the value of exactly that   *)
(* one field.                                                              *)
(***************************************************************************)
StringFields(d) == {k \in DOMAIN d.v : d.v[k][2].t = "str"}

FirstStringField(d) == CHOOSE k \in StringFields(d) : \A j \in StringFields(d) : k <= j

FirstStringName(d) ==
    CASE d.v[1][1] = "id" -> "name"
      [] d.v[1][1] = "product_id" -> "product_id"
      [] d.v[1][1] = "transaction_id" -> "transaction_id"
      [] d.v[1][1] = "event_id" -> "event_type"
      [] d.v[1][1] = "department" -> "department"
      [] OTHER -> "?"

C10_Technique2OnGenerated ==
    /\ pc = "inject" =>
          /\ StringFields(data) # {}
          /\ data.v[FirstStringField(data)][1] = FirstStringName(data)
          /\ ~DeepContains(data, "golden")
          /\ LET r == add_golden_value(data, 2)
                 changed == {k \in DOMAIN data.v : r.v[k] # data.v[k]}
             IN  /\ DOMAIN r.v = DOMAIN data.v
                 /\ Keys(r) = Keys(data)
                 /\ changed = {FirstStringField(data)}
                 /\ r.v[FirstStringField(data)][2] = PyStr("golden")
    /\ (pc = "write" /\ i = golden_file_index /\ modification_type = 2) =>
          /\ Keys(data) = Keys(returned)
          /\ {k \in DOMAIN data.v : data.v[k] # returned.v[k]} = {FirstStringField(returned)}
          /\ data.v[FirstStringField(returned)][2] = PyStr("golden")

\* Technique 2 has run on a record whose first field is not a string.
C10_Witness ==
    /\ pc = "write"
    /\ i = golden_file_index
    /\ modification_type = 2
    /\ returned.v[1][2].t = "int"
    /\ data.v[2][2] = PyStr("golden")
    /\ data.v[1] = returned.v[1]

(***************************************************************************)
(* The declared shapes and domains, stated on the JSON document of a file. *)
(***************************************************************************)
IsIntIn(doc, a, b) == doc.t = "number" /\ doc.v % 100 = 0 /\ (doc.v \div 100) \in a .. b
IsRealIn(doc, a, b) == doc.t = "number" /\ 100 * a <= doc.v /\ doc.v <= 100 * b
IsOneOf(doc, S) == doc.t = "string" /\ doc.v \in S
IsBoolean(doc) == doc.t = "boolean"

NameSet == {"Alice", "Bob", "Charlie", "Diana", "Eve", "Frank", "Grace", "Henry", "Iris", "Jack"}
LowerNameSet == {"alice", "bob", "charlie", "diana", "eve", "frank", "grace", "henry", "iris", "jack"}
CitySet == {"New York", "London", "Tokyo", "Paris", "Berlin", "Sydney", "Toronto", "Mumbai", "Seoul", "Dubai"}
ProductSet == {"laptop", "phone", "tablet", "monitor", "keyboard", "mouse", "headphones", "camera", "speaker", "charger"}
ColorSet == {"red", "blue", "green", "yellow", "purple", "orange", "pink", "black", "white", "silver"}
StatusSet == {"active", "inactive", "pending", "completed", "cancelled", "processing"}
EmailSet == {n \o ToString(k) \o "@example.com" : n \in LowerNameSet, k \in 1 .. 999}
ProductIdSet == {"PROD-" \o ToString(k) : k \in 10000 .. 99999}
TransactionIdSet == {"TXN-" \o ToString(k) : k \in 100000 .. 999999}
ProjectNameSet == {"Project-" \o ToString(k) : k \in 1 .. 100}

\* The dates 2020-01-01 .. 2025-12-31 at midnight, from the calendar itself.
MonthLengths == <<31, 28, 31, 30, 31, 30, 31, 31, 30, 31, 30, 31>>
TwoDigits(n) == Digits[(n \div 10) + 1] \o Digits[(n % 10) + 1]
DaysIn(y, m) == IF m = 2 /\ y \in {2020, 2024} THEN 29 ELSE MonthLengths[m]
ValidTimestamps ==
    UNION {{ToString(y) \o "-" \o TwoDigits(m) \o "-" \o TwoDigits(d) \o "T00:00:00" :
               d \in 1 .. DaysIn(y, m)} :
           y \in 2020 .. 2025, m \in 1 .. 12}

ArchetypeKeys ==
    [Profile |-> <<"id", "name", "email", "age", "city", "active", "score">>,
     Product |-> <<"product_id", "name", "price", "color", "in_stock", "quantity", "category">>,
     Transaction |-> <<"transaction_id", "user_id", "amount", "currency", "status", "timestamp">>,
     Event |-> <<"event_id", "event_type", "user", "location", "timestamp", "metadata">>,
     Department |-> <<"department", "data", "last_updated">>]

Archetypes == DOMAIN ArchetypeKeys

\* The keys of an object, in order.
ObjKeys(doc) == [k \in DOMAIN doc.v |-> doc.v[k][1]]

\* doc is an object whose keys are `keys`; when extra, further keys may follow.
HasKeys(doc, keys, extra) ==
    /\ doc.t = "object"
    /\ IF extra
       THEN Len(doc.v) >= Len(keys) /\ SubSeq(ObjKeys(doc), 1, Len(keys)) = keys
       ELSE ObjKeys(doc) = keys

IsProject(doc) ==
    /\ HasKeys(doc, <<"name", "status", "priority">>, FALSE)
    /\ IsOneOf(doc.v[1][2], ProjectNameSet)
    /\ IsOneOf(doc.v[2][2], StatusSet)
    /\ IsOneOf(doc.v[3][2], {"low", "medium", "high", "critical"})

\* The value of field `key` of archetype `arch` lies in its declared domain.
InDomain(arch, key, doc, extra) ==
    CASE arch = "Profile" ->
          (CASE key = "id" -> IsIntIn(doc, 1000, 9999)
             [] key = "name" -> IsOneOf(doc, NameSet)
             [] key = "email" -> IsOneOf(doc, EmailSet)
             [] key = "age" -> IsIntIn(doc, 18, 80)
             [] key = "city" -> IsOneOf(doc, CitySet)
             [] key = "active" -> IsBoolean(doc)
             [] key = "score" -> IsRealIn(doc, 0, 100))
      [] arch = "Product" ->
          (CASE key = "product_id" -> IsOneOf(doc, ProductIdSet)
             [] key = "name" -> IsOneOf(doc, ProductSet)
             [] key = "price" -> IsRealIn(doc, 10, 2000)
             [] key = "color" -> IsOneOf(doc, ColorSet)
             [] key = "in_stock" -> IsBoolean(doc)
             [] key = "quantity" -> IsIntIn(doc, 0, 500)
             [] key = "category" ->
                  IsOneOf(doc, {"electronics", "accessories", "computers", "audio"}))
      [] arch = "Transaction" ->
          (CASE key = "transaction_id" -> IsOneOf(doc, TransactionIdSet)
             [] key = "user_id" -> IsIntIn(doc, 1000, 9999)
             [] key = "amount" -> IsRealIn(doc, 1, 10000)
             [] key = "currency" -> IsOneOf(doc, {"USD", "EUR", "GBP", "JPY"})
             [] key = "status" -> IsOneOf(doc, StatusSet)
             [] key = "timestamp" -> IsOneOf(doc, ValidTimestamps))
      [] arch = "Event" ->
          (CASE key = "event_id" -> IsIntIn(doc, 1, 99999)
             [] key = "event_type" ->
                  IsOneOf(doc, {"login", "logout", "purchase", "view", "click", "search"})
             [] key = "user" -> IsOneOf(doc, NameSet)
             [] key = "location" -> IsOneOf(doc, CitySet)
             [] key = "timestamp" -> IsOneOf(doc, ValidTimestamps)
             [] key = "metadata" ->
                  /\ HasKeys(doc, <<"browser", "device">>, extra)
                  /\ IsOneOf(doc.v[1][2], {"Chrome", "Firefox", "Safari", "Edge"})
                  /\ IsOneOf(doc.v[2][2], {"desktop", "mobile", "tablet"}))
      [] arch = "Department" ->
          (CASE key = "department" ->
                  IsOneOf(doc, {"Engineering", "Sales", "Marketing", "HR", "Finance"})
             [] key = "data" ->
                  /\ HasKeys(doc, <<"employees", "budget", "projects">>, extra)
                  /\ IsIntIn(doc.v[1][2], 5, 100)
                  /\ IsRealIn(doc.v[2][2], 50000, 5000000)
                  /\ doc.v[3][2].t = "array"
                  /\ Len(doc.v[3][2].v) \in 1 .. 5
                  /\ \A k \in DOMAIN doc.v[3][2].v : IsProject(doc.v[3][2].v[k])
             [] key = "last_updated" -> IsOneOf(doc, ValidTimestamps))

\* The first string-valued field of each archetype.
FirstStringOf ==
    [Profile |-> "name", Product |-> "product_id", Transaction |-> "transaction_id",
     Event |-> "event_type", Department |-> "department"]

\* doc has the shape of an archetype and every generated field is in its domain.
\* extra: fields added after the generated ones are tolerated;
\* marked: the first string-valued field may hold "golden" instead.
WellFormed(doc, extra, marked) ==
    \E arch \in Archetypes :
        /\ HasKeys(doc, ArchetypeKeys[arch], extra)
        /\ \A k \in DOMAIN ArchetypeKeys[arch] :
              \/ InDomain(arch, doc.v[k][1], doc.v[k][2], extra)
              \/ /\ marked
                 /\ doc.v[k][1] = FirstStringOf[arch]
                 /\ doc.v[k][2] = [t |-> "string", v |-> "golden"]

\* The files to look at in a state: the one written last, and all of them at the end.
Inspected ==
    IF pc = "done" THEN DOMAIN files
    ELSE IF opened # <<>> /\ opened[Len(opened)] \in DOMAIN files
         THEN {opened[Len(opened)]} ELSE {}

IsMarkedFile(n) == golden_file_index \in 0 .. 99 /\ n = ExpectedName(golden_file_index)

(***************************************************************************)
(* C4 as claimed: every file written, the marked one included, has an      *)
(* archetype's fields with every generated field in its declared domain    *)
(* (fields the injector adds are tolerated).                               *)
(***************************************************************************)
C4_Original ==
    \A n \in Inspected : files[n] # Truncated => WellFormed(files[n], TRUE, FALSE)

(***************************************************************************)
(* C4 as amended: every unmarked file has exactly an archetype's fields,   *)
(* every value in its declared domain; so has the marked file, but for the *)
(* fields the injector adds and, under technique 2, for its first          *)
(* string-valued field, which then holds "golden".                         *)
(***************************************************************************)
C4_DomainsButMarkedField ==
    \A n \in Inspected : files[n] # Truncated =>
        IF IsMarkedFile(n)
        THEN /\ WellFormed(files[n], modification_type # 2, modification_type = 2)
             /\ modification_type = 2 => ~WellFormed(files[n], TRUE, FALSE)
        ELSE WellFormed(files[n], FALSE, FALSE)

\* The marked Product file was written after technique 2 replaced its product_id.
C4_Witness ==
    /\ pc = "generate"
    /\ i = golden_file_index + 1
    /\ modification_type = 2
    /\ files[ExpectedName(golden_file_index)].v[1] = <<"product_id", [t |-> "string", v |-> "golden"]>>

(***************************************************************************)
(* C6: every timestamp field of every file written (timestamp of a         *)
(* Transaction or an Event, last_updated of a Department), the marked file *)
(* included, is a date of 2020-01-01 .. 2025-12-31, the day offset drawn   *)
(* from 0 .. delta.days = 2191; the injector leaves the field in place.    *)
(***************************************************************************)
TimestampKey(doc) ==
    CASE doc.v # <<>> /\ doc.v[1][1] \in {"transaction_id", "event_id"} -> "timestamp"
      [] doc.v # <<>> /\ doc.v[1][1] = "department" -> "last_updated"
      [] OTHER -> ""

C6_TimestampsInRange ==
    /\ delta_days = 2191
    /\ \A n \in Inspected : files[n] # Truncated =>
          /\ \A k \in DOMAIN files[n].v :
                files[n].v[k][1] \in {"timestamp", "last_updated"} =>
                    IsOneOf(files[n].v[k][2], ValidTimestamps)
          /\ TimestampKey(files[n]) # "" =>
                \E k \in DOMAIN files[n].v : files[n].v[k][1] = TimestampKey(files[n])

\* A file carries the last day of the range.
C6_Witness ==
    \E n \in Inspected : files[n].t = "object" /\ \E k \in DOMAIN files[n].v :
        files[n].v[k] = <<"timestamp", [t |-> "string", v |-> "2025-12-31T00:00:00"]>>

\* A file carries the first day of the range.
C6_WitnessStart ==
    \E n \in Inspected : files[n].t = "object" /\ \E k \in DOMAIN files[n].v :
        files[n].v[k] = <<"timestamp", [t |-> "string", v |-> "2020-01-01T00:00:00"]>>

(***************************************************************************)
(* Vocabulary for a single call of add_golden_value.                       *)
(***************************************************************************)
Marker == PyStr("golden")
Tags == PyList(<<PyStr("special"), PyStr("golden"), PyStr("rare")>>)

Returned(technique) == pc = "returned" /\ arg_type = technique

DictFields(d) == {k \in DOMAIN d.v : d.v[k][2].t = "dict"}
FirstDictField(d) == CHOOSE k \in DictFields(d) : \A j \in DictFields(d) : k <= j

\* new is old with one field more, key |-> val, at its end.
AddsField(old, new, key, val) ==
    /\ \A k \in DOMAIN old : old[k][1] # key
    /\ new = Append(old, <<key, val>>)

\* new is old with field key set to val: added at the end when old has no such field,
\* its value replaced where it stands otherwise; nothing else differs.
SetsField(old, new, key, val) ==
    /\ Len(new) = Len(old) + (IF \E k \in DOMAIN old : old[k][1] = key THEN 0 ELSE 1)
    /\ \A k \in DOMAIN old :
          /\ new[k][1] = old[k][1]
          /\ old[k][1] # key => new[k] = old[k]
    /\ \E k \in DOMAIN new : new[k] = <<key, val>>

(***************************************************************************)
(* C2: technique 2 replaces the value of the first string-valued top-level *)
(* field by the Marker and changes nothing else; a record without such a   *)
(* field gets technique 1's new top-level field instead, so the result     *)
(* always contains the Marker.                                             *)
(***************************************************************************)
C2_Technique2 ==
    Returned(2) =>
        IF StringFields(arg_data) # {}
        THEN /\ DOMAIN ret_data.v = DOMAIN arg_data.v
             /\ \A k \in DOMAIN arg_data.v :
                   ret_data.v[k] = IF k = FirstStringField(arg_data)
                                   THEN <<arg_data.v[k][1], Marker>>
                                   ELSE arg_data.v[k]
        ELSE /\ SetsField(arg_data.v, ret_data.v, "treasure", Marker)
             /\ DeepContains(ret_data, "golden")

(***************************************************************************)
(* C3 as claimed: technique 3 adds a field "special" holding the Marker    *)
(* inside the first nested mapping and adds no top-level field; without a  *)
(* nested mapping it adds a new top-level field "special"; all             *)
(* pre-existing fields keep their values.                                  *)
(***************************************************************************)
C3_Original ==
    Returned(3) =>
        IF DictFields(arg_data) # {}
        THEN LET k0 == FirstDictField(arg_data)
             IN  /\ DOMAIN ret_data.v = DOMAIN arg_data.v
                 /\ \A k \in DOMAIN arg_data.v \ {k0} : ret_data.v[k] = arg_data.v[k]
                 /\ ret_data.v[k0][1] = arg_data.v[k0][1]
                 /\ ret_data.v[k0][2].t = "dict"
                 /\ AddsField(arg_data.v[k0][2].v, ret_data.v[k0][2].v, "special", Marker)
        ELSE AddsField(arg_data.v, ret_data.v, "special", Marker)

(***************************************************************************)
(* C3 as amended: technique 3 sets the field "special" of the first nested *)
(* mapping to the Marker and adds no top-level field; without a nested     *)
(* mapping it sets the top-level field "special".  The field is added when *)
(* the mapping has none of that name and overwritten otherwise.  The       *)
(* nested mapping is changed in place: every pre-existing field shows the  *)
(* changed mapping wherever it holds that very object, at any depth, and   *)
(* is the same otherwise; a field through which the object cannot be       *)
(* reached keeps its value.                                                *)
(***************************************************************************)
SameObject(a, b) == a.t = "dict" /\ b.t = "dict" /\ a.id = b.id

\* val is, or holds at some depth, the dict of identity id.
RECURSIVE Reaches(_, _)
Reaches(val, id) ==
    CASE val.t = "dict" ->
            val.id = id \/ \E k \in DOMAIN val.v : Reaches(val.v[k][2], id)
      [] val.t = "list" -> \E k \in DOMAIN val.v : Reaches(val.v[k], id)
      [] OTHER -> FALSE

\* val with obj in every place where val holds the dict of obj's identity.
RECURSIVE WithObject(_, _)
WithObject(val, obj) ==
    CASE val.t = "dict" ->
            IF val.id = obj.id THEN obj
            ELSE [t |-> "dict", id |-> val.id,
                  v |-> [k \in DOMAIN val.v |->
                            <<val.v[k][1], WithObject(val.v[k][2], obj)>>]]
      [] val.t = "list" ->
            [t |-> "list", v |-> [k \in DOMAIN val.v |-> WithObject(val.v[k], obj)]]
      [] OTHER -> val

C3_Technique3 ==
    Returned(3) =>
        IF DictFields(arg_data) # {}
        THEN LET k0 == FirstDictField(arg_data)
                 old == arg_data.v[k0][2]
                 new == ret_data.v[k0][2]
             IN  /\ DOMAIN ret_data.v = DOMAIN arg_data.v
                 /\ new.t = "dict"
                 /\ new.id = old.id
                 /\ SetsField(old.v, new.v, "special", Marker)
                 /\ ~HasKey(old, "special") => AddsField(old.v, new.v, "special", Marker)
                 /\ \A k \in DOMAIN arg_data.v :
                       /\ ret_data.v[k][1] = arg_data.v[k][1]
                       /\ ret_data.v[k][2] = WithObject(arg_data.v[k][2], new)
                       /\ ~Reaches(arg_data.v[k][2], old.id) => ret_data.v[k] = arg_data.v[k]
        ELSE /\ SetsField(arg_data.v, ret_data.v, "special", Marker)
             /\ ~HasKey(arg_data, "special") =>
                   AddsField(arg_data.v, ret_data.v, "special", Marker)

\* The first nested mapping is the record's second field and has no field "special";
\* the third field is a list that holds the same object, the first a string.
C3_Witness ==
    /\ Returned(3)
    /\ Len(arg_data.v) = 3
    /\ arg_data.v[1][2] = PyStr("x")
    /\ DictFields(arg_data) = {2}
    /\ ~HasKey(arg_data.v[2][2], "special")
    /\ arg_data.v[3][2].t = "list"
    /\ Reaches(arg_data.v[3][2], arg_data.v[2][2].id)
    /\ Get(ret_data.v[2][2], "special") = Marker
    /\ ret_data.v[3][2].v[1] = ret_data.v[2][2]
    /\ ret_data.v[1] = arg_data.v[1]

\* The first nested mapping has a field "special" and holds the mapping of the
\* second field, which it does not change.
C3_WitnessOverwrite ==
    /\ Returned(3)
    /\ Len(arg_data.v) = 2
    /\ DictFields(arg_data) = {1, 2}
    /\ HasKey(arg_data.v[1][2], "special")
    /\ Get(arg_data.v[1][2], "special") = PyInt(1)
    /\ Get(ret_data.v[1][2], "special") = Marker
    /\ ret_data.v[2] = arg_data.v[2]

\* The record holds its first nested mapping in a second field as well.
C3_WitnessShared ==
    /\ Returned(3)
    /\ Len(arg_data.v) = 3
    /\ DictFields(arg_data) = {1, 3}
    /\ SameObject(arg_data.v[1][2], arg_data.v[3][2])
    /\ ~HasKey(arg_data.v[3][2], "special")
    /\ Get(ret_data.v[3][2], "special") = Marker
    /\ ret_data.v[2] = arg_data.v[2]

\* The record has no nested mapping: the field goes to the top level.
C3_WitnessFallback ==
    /\ Returned(3)
    /\ Len(arg_data.v) = 2
    /\ DictFields(arg_data) = {}
    /\ Len(ret_data.v) = 3
    /\ ret_data.v[3] = <<"special", Marker>>

(***************************************************************************)
(* C7 as claimed: technique 1 adds exactly one new top-level field         *)
(* "treasure" holding the Marker, technique 4 exactly one new top-level    *)
(* field "tags" holding ["special", "golden", "rare"]; every field the     *)
(* record had keeps its name, position and value.                          *)
(***************************************************************************)
C7_Original ==
    /\ Returned(1) => AddsField(arg_data.v, ret_data.v, "treasure", Marker)
    /\ Returned(4) => AddsField(arg_data.v, ret_data.v, "tags", Tags)

(***************************************************************************)
(* C7 as amended: on a record with no field "treasure", technique 1 adds   *)
(* exactly that field, holding the Marker; on a record with no field       *)
(* "tags", technique 4 adds exactly that field, holding the list           *)
(* ["special", "golden", "rare"], the Marker once in it.  A record that    *)
(* has the field keeps its length and has the field's value overwritten.   *)
(* Every other field keeps its name, position and value.                   *)
(***************************************************************************)
C7_PureAdditions ==
    /\ Returned(1) =>
          /\ SetsField(arg_data.v, ret_data.v, "treasure", Marker)
          /\ ~HasKey(arg_data, "treasure") =>
                AddsField(arg_data.v, ret_data.v, "treasure", Marker)
    /\ Returned(4) =>
          /\ SetsField(arg_data.v, ret_data.v, "tags", Tags)
          /\ ~HasKey(arg_data, "tags") => AddsField(arg_data.v, ret_data.v, "tags", Tags)
          /\ Cardinality({k \in DOMAIN Get(ret_data, "tags").v :
                            Get(ret_data, "tags").v[k] = Marker}) = 1
          /\ Len(Get(ret_data, "tags").v) = 3

\* Technique 4 on a record of two fields, neither named "tags".
C7_Witness ==
    /\ Returned(4)
    /\ Len(arg_data.v) = 2
    /\ ~HasKey(arg_data, "tags")
    /\ Len(ret_data.v) = 3
    /\ ret_data.v[3][1] = "tags"

\* Technique 1 on a record of two fields, neither named "treasure".
C7_WitnessTreasure ==
    /\ Returned(1)
    /\ Len(arg_data.v) = 2
    /\ ~HasKey(arg_data, "treasure")
    /\ ret_data.v[3] = <<"treasure", Marker>>

====
